---- MODULE Spec2Model ----
(***************************************************************************)
(* MediFile backend (medifile_backend/core): the relational tables of      *)
(* models.py and the request handlers that views.py / urls.py expose over  *)
(* the serializers of serializers.py.                                      *)
(*                                                                         *)
(* A table is the set of its rows; a row is a record of the columns the    *)
(* properties below read.  Every routed viewset is a ModelViewSet, so each *)
(* route offers create, update (PUT/PATCH) and destroy behind the single   *)
(* permission class IsAuthenticated.  Slot and AuditLog have a serializer  *)
(* but no route: their rows enter through the serializer's create.         *)
(* Requests run on parallel workers; the two creations whose races matter  *)
(* (Slot, Appointment) are split at the point the framework splits them:   *)
(* serializer.is_valid(), then serializer.save().                          *)
(***************************************************************************)
EXTENDS Integers, FiniteSets, Sequences, TLC

VARIABLES
    users,          \* table "users":              [user_id, role]
    patients,       \* table "patients":           [patient_id, user]
    doctors,        \* table "doctors":            [doctor_id, user]
    slots,          \* table "slots":              [slot_id, doctor, start_time, end_time, is_available]
    appointments,   \* table "appointments":       [appointment_id, patient, doctor, date_time, status]
    prescriptions,  \* table "prescriptions":      [prescription_id, patient, doctor, notes]
    items,          \* table "prescription_items": [item_id, prescription, medication_name, dosage, frequency, duration]
    auditlogs,      \* table "audit_logs":         [log_id, user, action, timestamp, ip_address]
    nextId,         \* the BigAutoField sequence of each table
    req             \* per worker: its request between is_valid() and save(), or
                    \* the outcome of the request it finished last

vars == <<users, patients, doctors, slots, appointments, prescriptions, items,
          auditlogs, nextId, req>>

----------------------------------------------------------------------------
(* Bounds of the model *)

MaxUsers == 3
MaxSlots == 2
MaxAppointments == 2
MaxPrescriptions == 2
MaxItems == 2
MaxLogs == 1

(* Value domains of the requests *)
Times == {0, 1}
Workers == {1, 2}

(* A null foreign key: primary keys start at 1. *)
NULL == 0

----------------------------------------------------------------------------
(* Column domains *)

Role == {"admin", "doctor", "patient", "nurse"}

Status == {"scheduled", "completed", "canceled"}

Action == {"login", "record_access", "edit"}

Tables == {"users", "patients", "doctors", "slots", "appointments",
           "prescriptions", "prescription_items", "audit_logs"}

IdsOf(rows, key) == {r[key] : r \in rows}

UserIds == IdsOf(users, "user_id")
PatientIds == IdsOf(patients, "patient_id")
DoctorIds == IdsOf(doctors, "doctor_id")
PrescriptionIds == IdsOf(prescriptions, "prescription_id")

Idle(outcome) == [pc |-> "idle", resp |-> outcome]

Init ==
    /\ users = {}
    /\ patients = {}
    /\ doctors = {}
    /\ slots = {}
    /\ appointments = {}
    /\ prescriptions = {}
    /\ items = {}
    /\ auditlogs = {}
    /\ nextId = [t \in Tables |-> 1]
    /\ req = [w \in Workers |-> Idle("none")]

(* permission_classes = [IsAuthenticated]: the request carries a stored user. *)
IsAuthenticated(caller) == caller \in users

----------------------------------------------------------------------------
(* on_delete rules of models.py, as the rows each table keeps when the     *)
(* rows with the given parent keys are deleted.  Django's collector runs   *)
(* the whole cascade inside one transaction.                               *)

(* Patient.user: on_delete=CASCADE *)
PatientsAfterDelete(du, dp) ==
    {p \in patients : p.user \notin du /\ p.patient_id \notin dp}

(* Doctor.user: on_delete=CASCADE *)
DoctorsAfterDelete(du, dd) ==
    {d \in doctors : d.user \notin du /\ d.doctor_id \notin dd}

(* Fault variant of AuditLogsAfterDelete: the foreign key cascades. *)
AuditLogsAfterDelete_Cascade(du) ==
    {l \in auditlogs : l.user \notin du}

(* AuditLog.user: on_delete=SET_NULL, null=True *)
AuditLogsAfterDelete(du) ==
    {IF l.user \in du THEN [l EXCEPT !.user = NULL] ELSE l : l \in auditlogs}

(* Slot.doctor: on_delete=CASCADE *)
SlotsAfterDelete(dd) ==
    {s \in slots : s.doctor \notin dd}

(* Fault variant of AppointmentsAfterDelete: only Appointment.patient cascades. *)
AppointmentsAfterDelete_PatientOnly(dp, dd, da) ==
    {a \in appointments : a.patient \notin dp /\ a.appointment_id \notin da}

(* Appointment.patient, Appointment.doctor: on_delete=CASCADE *)
AppointmentsAfterDelete(dp, dd, da) ==
    {a \in appointments :
        a.patient \notin dp /\ a.doctor \notin dd /\ a.appointment_id \notin da}

(* Prescription.patient, Prescription.doctor: on_delete=CASCADE *)
PrescriptionsAfterDelete(dp, dd, dr) ==
    {r \in prescriptions :
        r.patient \notin dp /\ r.doctor \notin dd /\ r.prescription_id \notin dr}

(* PrescriptionItem.prescription: on_delete=CASCADE *)
ItemsAfterDelete(dr) ==
    {i \in items : i.prescription \notin dr}

(* Model.delete(): the rows named by du/dp0/dd0/da/dr0 and all that cascade *)
(* from them.                                                               *)
Delete(du, dp0, dd0, da, dr0) ==
    LET dp == dp0 \cup {p.patient_id : p \in {q \in patients : q.user \in du}}
        dd == dd0 \cup {d.doctor_id : d \in {q \in doctors : q.user \in du}}
        keptRx == PrescriptionsAfterDelete(dp, dd, dr0)
        dr == PrescriptionIds \ IdsOf(keptRx, "prescription_id")
    IN  /\ users' = {u \in users : u.user_id \notin du}
        /\ patients' = PatientsAfterDelete(du, dp0)
        /\ doctors' = DoctorsAfterDelete(du, dd0)
        /\ auditlogs' = AuditLogsAfterDelete(du)
        /\ slots' = SlotsAfterDelete(dd)
        /\ appointments' = AppointmentsAfterDelete(dp, dd, da)
        /\ prescriptions' = keptRx
        /\ items' = ItemsAfterDelete(dr)

----------------------------------------------------------------------------
(* Identity: users, patients, doctors *)

NewUser(role) == [user_id |-> nextId["users"], role |-> role]

(* manage.py createsuperuser: no role is passed, the CharField stores "". *)
CreateSuperuser ==
    /\ users' = users \cup {NewUser("")}
    /\ nextId' = [nextId EXCEPT !["users"] = @ + 1]
    /\ UNCHANGED <<patients, doctors, slots, appointments, prescriptions, items,
                   auditlogs, req>>

(* POST /users/ : UserSerializer.create *)
UserCreate(caller, role) ==
    /\ IsAuthenticated(caller)
    /\ users' = users \cup {NewUser(role)}
    /\ nextId' = [nextId EXCEPT !["users"] = @ + 1]
    /\ UNCHANGED <<patients, doctors, slots, appointments, prescriptions, items,
                   auditlogs, req>>

(* PUT/PATCH /users/<id>/ : UserSerializer.update copies every validated   *)
(* attribute, role among them, onto the instance and saves it.             *)
UserUpdate(caller, u, role) ==
    /\ IsAuthenticated(caller)
    /\ u \in users
    /\ users' = (users \ {u}) \cup {[u EXCEPT !.role = role]}
    /\ UNCHANGED <<patients, doctors, slots, appointments, prescriptions, items,
                   auditlogs, nextId, req>>

(* DELETE /users/<id>/ *)
UserDelete(caller, u) ==
    /\ IsAuthenticated(caller)
    /\ u \in users
    /\ Delete({u.user_id}, {}, {}, {}, {})
    /\ UNCHANGED <<nextId, req>>

(* POST /patients/ : PatientSerializer.create makes the nested user, then  *)
(* the patient.                                                            *)
PatientCreate(caller, role) ==
    /\ IsAuthenticated(caller)
    /\ users' = users \cup {NewUser(role)}
    /\ patients' = patients \cup
            {[patient_id |-> nextId["patients"], user |-> nextId["users"]]}
    /\ nextId' = [nextId EXCEPT !["users"] = @ + 1, !["patients"] = @ + 1]
    /\ UNCHANGED <<doctors, slots, appointments, prescriptions, items,
                   auditlogs, req>>

(* DELETE /patients/<id>/ *)
PatientDelete(caller, p) ==
    /\ IsAuthenticated(caller)
    /\ p \in patients
    /\ Delete({}, {p.patient_id}, {}, {}, {})
    /\ UNCHANGED <<nextId, req>>

(* POST /doctors/ : DoctorSerializer.create *)
DoctorCreate(caller, role) ==
    /\ IsAuthenticated(caller)
    /\ users' = users \cup {NewUser(role)}
    /\ doctors' = doctors \cup
            {[doctor_id |-> nextId["doctors"], user |-> nextId["users"]]}
    /\ nextId' = [nextId EXCEPT !["users"] = @ + 1, !["doctors"] = @ + 1]
    /\ UNCHANGED <<patients, slots, appointments, prescriptions, items,
                   auditlogs, req>>

(* DELETE /doctors/<id>/ *)
DoctorDelete(caller, d) ==
    /\ IsAuthenticated(caller)
    /\ d \in doctors
    /\ Delete({}, {}, {d.doctor_id}, {}, {})
    /\ UNCHANGED <<nextId, req>>

----------------------------------------------------------------------------
(* Scheduling: slots *)

(* SlotSerializer (fields = '__all__') .is_valid(): the doctor key must    *)
(* name a stored doctor and the two times must parse.  Nothing compares    *)
(* end_time with start_time.                                               *)
SlotValid(data) == data.doctor \in DoctorIds

(* Fault variant of UniqueSlotOK: the table has no unique constraint. *)
UniqueSlotOK_NoConstraint(data) == TRUE

(* Slot.Meta.constraints: UniqueConstraint(doctor, start_time, end_time),  *)
(* as the database checks it on INSERT.                                    *)
UniqueSlotOK(data) ==
    ~ \E s \in slots :
        /\ s.doctor = data.doctor
        /\ s.start_time = data.start_time
        /\ s.end_time = data.end_time

(* is_valid() of a slot creation.  Whether the serializer also derives a   *)
(* uniqueness validator from the model's UniqueConstraint depends on the   *)
(* framework release, so a duplicate is either refused here or let through *)
(* to the INSERT.                                                          *)
SlotBegin(w, data) ==
    /\ req[w].pc = "idle"
    /\ \/ /\ ~ SlotValid(data)
          /\ req' = [req EXCEPT ![w] = Idle("invalid")]
       \/ /\ SlotValid(data)
          /\ ~ UniqueSlotOK(data)
          /\ req' = [req EXCEPT ![w] = Idle("unique")]
       \/ /\ SlotValid(data)
          /\ req' = [req EXCEPT ![w] = [pc |-> "slot_save", data |-> data]]
    /\ UNCHANGED <<users, patients, doctors, slots, appointments, prescriptions,
                   items, auditlogs, nextId>>

NewSlot(data) ==
    [slot_id |-> nextId["slots"], doctor |-> data.doctor,
     start_time |-> data.start_time, end_time |-> data.end_time,
     is_available |-> TRUE]

(* serializer.save() -> Slot.objects.create of the validated data: one     *)
(* INSERT, refused by the database when the doctor row is gone or the      *)
(* unique constraint is hit.                                               *)
SlotSave(w) ==
    /\ req[w].pc = "slot_save"
    /\ LET data == req[w].data IN
        \/ /\ ~ (data.doctor \in DoctorIds /\ UniqueSlotOK(data))
           /\ req' = [req EXCEPT ![w] = Idle("IntegrityError")]
           /\ UNCHANGED <<slots, nextId>>
        \/ /\ data.doctor \in DoctorIds
           /\ UniqueSlotOK(data)
           /\ slots' = slots \cup {NewSlot(data)}
           /\ nextId' = [nextId EXCEPT !["slots"] = @ + 1]
           /\ req' = [req EXCEPT ![w] = Idle("created")]
    /\ UNCHANGED <<users, patients, doctors, appointments, prescriptions, items,
                   auditlogs>>

----------------------------------------------------------------------------
(* Scheduling: appointments *)

(* AppointmentSerializer (fields = '__all__') .is_valid(): patient and     *)
(* doctor must name stored rows, status must be one of Status.choices.     *)
(* No slot is looked up and no other appointment is read.                  *)
AppointmentValid(data) ==
    /\ data.patient \in PatientIds
    /\ data.doctor \in DoctorIds
    /\ data.status \in Status

(* POST /appointments/ up to is_valid() *)
AppointmentBegin(w, caller, data) ==
    /\ IsAuthenticated(caller)
    /\ req[w].pc = "idle"
    /\ \/ /\ ~ AppointmentValid(data)
          /\ req' = [req EXCEPT ![w] = Idle("invalid")]
       \/ /\ AppointmentValid(data)
          /\ req' = [req EXCEPT ![w] =
                [pc |-> "appointment_save", caller |-> caller, data |-> data]]
    /\ UNCHANGED <<users, patients, doctors, slots, appointments, prescriptions,
                   items, auditlogs, nextId>>

NewAppointment(data) ==
    [appointment_id |-> nextId["appointments"], patient |-> data.patient,
     doctor |-> data.doctor, date_time |-> data.date_time, status |-> data.status]

(* POST /appointments/ : serializer.save() -> one INSERT, refused only     *)
(* when a referenced row is gone.                                          *)
AppointmentSave(w) ==
    /\ req[w].pc = "appointment_save"
    /\ LET data == req[w].data IN
        \/ /\ ~ (data.patient \in PatientIds /\ data.doctor \in DoctorIds)
           /\ req' = [req EXCEPT ![w] = Idle("IntegrityError")]
           /\ UNCHANGED <<appointments, nextId>>
        \/ /\ data.patient \in PatientIds
           /\ data.doctor \in DoctorIds
           /\ appointments' = appointments \cup {NewAppointment(data)}
           /\ nextId' = [nextId EXCEPT !["appointments"] = @ + 1]
           /\ req' = [req EXCEPT ![w] = Idle("created")]
    /\ UNCHANGED <<users, patients, doctors, slots, prescriptions, items,
                   auditlogs>>

(* PUT/PATCH /appointments/<id>/ : every writable column, status among     *)
(* them, is replaced by the validated value.                               *)
AppointmentUpdate(caller, a, data) ==
    /\ IsAuthenticated(caller)
    /\ a \in appointments
    /\ AppointmentValid(data)
    /\ appointments' = (appointments \ {a}) \cup
            {[appointment_id |-> a.appointment_id, patient |-> data.patient,
              doctor |-> data.doctor, date_time |-> data.date_time,
              status |-> data.status]}
    /\ UNCHANGED <<users, patients, doctors, slots, prescriptions, items,
                   auditlogs, nextId, req>>

(* DELETE /appointments/<id>/ *)
AppointmentDelete(caller, a) ==
    /\ IsAuthenticated(caller)
    /\ a \in appointments
    /\ Delete({}, {}, {}, {a.appointment_id}, {})
    /\ UNCHANGED <<nextId, req>>

----------------------------------------------------------------------------
(* Clinical records: prescriptions *)

CharFields == {"medication_name", "dosage", "frequency", "duration"}

(* PrescriptionItemSerializer (fields = '__all__') .is_valid() on one      *)
(* nested item: the four CharFields are required and may not be blank, and *)
(* so is "prescription", the key of a stored prescription (item_id is an   *)
(* AutoField, hence read-only).                                            *)
ItemValid(item) ==
    /\ "prescription" \in DOMAIN item
    /\ item["prescription"] \in PrescriptionIds
    /\ \A f \in CharFields : f \in DOMAIN item /\ item[f] # ""

(* PrescriptionSerializer.is_valid(): items is many=True, required=False,  *)
(* so an absent or empty list passes.                                      *)
PrescriptionValid(data) ==
    /\ data.patient \in PatientIds
    /\ data.doctor \in DoctorIds
    /\ \A k \in 1..Len(data.items) : ItemValid(data.items[k])

(* PrescriptionItem.objects.create(prescription=prescription, item_data):  *)
(* a validated item carries its own "prescription" key, so the call passes *)
(* that keyword twice and raises TypeError before any row is written.      *)
ItemCreateRaises(item_data) == "prescription" \in DOMAIN item_data

(* The loop of PrescriptionSerializer.create: the rows written until an    *)
(* item raises.  No transaction encloses the loop or the Prescription row. *)
RECURSIVE ItemsCreated(_, _, _)
ItemsCreated(rx, items_data, id) ==
    IF items_data = << >> \/ ItemCreateRaises(Head(items_data))
    THEN {}
    ELSE {[item_id |-> id, prescription |-> rx,
           medication_name |-> Head(items_data)["medication_name"],
           dosage |-> Head(items_data)["dosage"],
           frequency |-> Head(items_data)["frequency"],
           duration |-> Head(items_data)["duration"]]}
         \cup ItemsCreated(rx, Tail(items_data), id + 1)

(* POST /prescriptions/ : PrescriptionSerializer.create *)
PrescriptionCreate(caller, data) ==
    /\ IsAuthenticated(caller)
    /\ PrescriptionValid(data)
    /\ LET rx == nextId["prescriptions"]
           made == ItemsCreated(rx, data.items, nextId["prescription_items"])
       IN  /\ prescriptions' = prescriptions \cup
                {[prescription_id |-> rx, patient |-> data.patient,
                  doctor |-> data.doctor, notes |-> data.notes]}
           /\ items' = items \cup made
           /\ nextId' = [nextId EXCEPT !["prescriptions"] = @ + 1,
                                       !["prescription_items"] = @ + Cardinality(made)]
    /\ UNCHANGED <<users, patients, doctors, slots, appointments, auditlogs, req>>

(* PUT/PATCH /prescriptions/<id>/ without "items": ModelSerializer.update  *)
(* writes patient, doctor and notes onto the stored row.                   *)
PrescriptionUpdate(caller, r, data) ==
    /\ IsAuthenticated(caller)
    /\ r \in prescriptions
    /\ data.patient \in PatientIds
    /\ data.doctor \in DoctorIds
    /\ prescriptions' = (prescriptions \ {r}) \cup
            {[prescription_id |-> r.prescription_id, patient |-> data.patient,
              doctor |-> data.doctor, notes |-> data.notes]}
    /\ UNCHANGED <<users, patients, doctors, slots, appointments, items,
                   auditlogs, nextId, req>>

(* DELETE /prescriptions/<id>/ *)
PrescriptionDelete(caller, r) ==
    /\ IsAuthenticated(caller)
    /\ r \in prescriptions
    /\ Delete({}, {}, {}, {}, {r.prescription_id})
    /\ UNCHANGED <<nextId, req>>

----------------------------------------------------------------------------
(* Access and audit ledger *)

(* AuditLogSerializer (fields = '__all__') create: user is nullable.  No   *)
(* route, viewset or admin registration reaches this table otherwise.      *)
AuditLogCreate(data) ==
    /\ data.user \in UserIds \cup {NULL}
    /\ auditlogs' = auditlogs \cup
            {[log_id |-> nextId["audit_logs"], user |-> data.user,
              action |-> data.action, timestamp |-> data.timestamp,
              ip_address |-> data.ip_address]}
    /\ nextId' = [nextId EXCEPT !["audit_logs"] = @ + 1]
    /\ UNCHANGED <<users, patients, doctors, slots, appointments, prescriptions,
                   items, req>>

----------------------------------------------------------------------------
(* Request payloads *)

(* Primary keys a request may name: stored or not. *)
Pks == 1..MaxUsers

SlotData == [doctor : Pks, start_time : Times, end_time : Times]

AppointmentData == [patient : Pks, doctor : Pks, date_time : Times, status : Status]

Notes == {"", "n"}

(* Item payloads: a complete one, and the same with one key dropped or one *)
(* CharField left blank.                                                   *)
GoodItem(rx) ==
    [prescription |-> rx, medication_name |-> "m", dosage |-> "d",
     frequency |-> "f", duration |-> "t"]

Without(item, f) == [k \in (DOMAIN item) \ {f} |-> item[k]]

ItemInputs ==
    UNION {{GoodItem(rx)}
           \cup {Without(GoodItem(rx), f) : f \in DOMAIN GoodItem(rx)}
           \cup {[GoodItem(rx) EXCEPT ![f] = ""] : f \in CharFields}
           : rx \in 1..MaxPrescriptions}

ItemLists == UNION {[1..n -> ItemInputs] : n \in 0..MaxItems}

PrescriptionData ==
    [patient : Pks, doctor : Pks, notes : Notes, items : ItemLists]

PrescriptionUpdateData == [patient : Pks, doctor : Pks, notes : Notes]

IpAddresses == {"10.0.0.1"}

(* The rows recorded name a user, stored or not: a user reference that is  *)
(* null in the table was set so by a deletion.                             *)
AuditLogData ==
    [user : Pks, action : Action, timestamp : Times, ip_address : IpAddresses]

----------------------------------------------------------------------------
(* Specifications.  Each table's sequence is capped so that the state      *)
(* space is finite; a request that would pass the cap is not issued.       *)

Room(table, max) == nextId[table] <= max

Bootstrap == Room("users", MaxUsers) /\ CreateSuperuser

UsersNext(roles) ==
    \/ \E c \in users, role \in roles : Room("users", MaxUsers) /\ UserCreate(c, role)
    \/ \E c \in users, u \in users, role \in roles : UserUpdate(c, u, role)

UserDeleteNext ==
    \E c \in users, u \in users : UserDelete(c, u)

PatientsNext(roles) ==
    \/ \E c \in users, role \in roles : Room("users", MaxUsers) /\ PatientCreate(c, role)
    \/ \E c \in users, p \in patients : PatientDelete(c, p)

DoctorsNext(roles) ==
    \/ \E c \in users, role \in roles : Room("users", MaxUsers) /\ DoctorCreate(c, role)
    \/ \E c \in users, d \in doctors : DoctorDelete(c, d)

SlotsNext(ws, payloads) ==
    \/ \E w \in ws, data \in payloads :
            Room("slots", MaxSlots) /\ SlotBegin(w, data)
    \/ \E w \in ws : Room("slots", MaxSlots) /\ SlotSave(w)

AppointmentsNext(ws, payloads) ==
    \/ \E w \in ws, c \in users, data \in payloads :
            Room("appointments", MaxAppointments) /\ AppointmentBegin(w, c, data)
    \/ \E w \in ws : Room("appointments", MaxAppointments) /\ AppointmentSave(w)
    \/ \E c \in users, a \in appointments, data \in payloads :
            AppointmentUpdate(c, a, data)
    \/ \E c \in users, a \in appointments : AppointmentDelete(c, a)

PrescriptionsNext ==
    \/ \E c \in users, data \in PrescriptionData :
            Room("prescriptions", MaxPrescriptions) /\ PrescriptionCreate(c, data)
    \/ \E c \in users, r \in prescriptions, data \in PrescriptionUpdateData :
            PrescriptionUpdate(c, r, data)
    \/ \E c \in users, r \in prescriptions : PrescriptionDelete(c, r)

AuditLogsNext ==
    \E data \in AuditLogData : Room("audit_logs", MaxLogs) /\ AuditLogCreate(data)

(* The whole backend. *)
Next ==
    \/ Bootstrap
    \/ UsersNext(Role)
    \/ UserDeleteNext
    \/ PatientsNext(Role)
    \/ DoctorsNext(Role)
    \/ SlotsNext(Workers, SlotData)
    \/ AppointmentsNext(Workers, AppointmentData)
    \/ PrescriptionsNext
    \/ AuditLogsNext

Spec == Init /\ [][Next]_vars

(* The components the properties are checked in.  A component takes the    *)
(* handlers that write the tables its properties read; where the role      *)
(* column is not read, the requests carry one role.                        *)
IdentityNext ==
    \/ Bootstrap
    \/ UsersNext(Role)
    \/ UserDeleteNext
    \/ PatientsNext(Role)
    \/ DoctorsNext(Role)

SpecIdentity == Init /\ [][IdentityNext]_vars

LedgerNext ==
    \/ Bootstrap
    \/ UsersNext({"nurse"})
    \/ UserDeleteNext
    \/ AuditLogsNext

SpecLedger == Init /\ [][LedgerNext]_vars

(* The slot windows of the requests: a proper one, and one that ends       *)
(* before it starts.                                                       *)
Windows == {<<0, 1>>, <<1, 0>>}

WindowSlotData ==
    {[doctor |-> d, start_time |-> win[1], end_time |-> win[2]] :
        d \in Pks, win \in Windows}

SlotAllocatorNext ==
    \/ Bootstrap
    \/ UserDeleteNext
    \/ DoctorsNext({"doctor"})
    \/ SlotsNext(Workers, WindowSlotData)

SpecSlots == Init /\ [][SlotAllocatorNext]_vars

(* One slot window and one appointment time. *)
OneSlotData == [doctor : Pks, start_time : {0}, end_time : {1}]

OneTimeData == [patient : Pks, doctor : Pks, date_time : {0}, status : Status]

(* Concurrent bookings against one window. *)
BookingNext ==
    \/ Bootstrap
    \/ PatientsNext({"patient"})
    \/ DoctorsNext({"doctor"})
    \/ SlotsNext({1}, OneSlotData)
    \/ AppointmentsNext(Workers, OneTimeData)

SpecBooking == Init /\ [][BookingNext]_vars

(* The appointment handlers, called by users of the patient and the doctor *)
(* role.                                                                   *)
AppointmentsApiNext ==
    \/ Bootstrap
    \/ UserDeleteNext
    \/ PatientsNext({"patient", "doctor"})
    \/ DoctorsNext({"patient", "doctor"})
    \/ AppointmentsNext({1}, AppointmentData)

SpecAppointments == Init /\ [][AppointmentsApiNext]_vars

(* New appointments are scheduled: the references are what the cascade is  *)
(* about.                                                                  *)
ScheduledData ==
    [patient : Pks, doctor : Pks, date_time : {0}, status : {"scheduled"}]

CascadeNext ==
    \/ Bootstrap
    \/ UserDeleteNext
    \/ PatientsNext({"patient"})
    \/ DoctorsNext({"doctor"})
    \/ SlotsNext({1}, OneSlotData)
    \/ AppointmentsNext({1}, ScheduledData)

SpecCascade == Init /\ [][CascadeNext]_vars

ClinicalNext ==
    \/ Bootstrap
    \/ UserDeleteNext
    \/ PatientsNext({"patient"})
    \/ DoctorsNext({"doctor"})
    \/ PrescriptionsNext

SpecClinical == Init /\ [][ClinicalNext]_vars

----------------------------------------------------------------------------
(* Properties *)

(* The appointments of a slot: the table has no slot column, the slot is   *)
(* the doctor's window that contains the appointment's time.               *)
Holds(a, s) ==
    /\ a.doctor = s.doctor
    /\ s.start_time <= a.date_time
    /\ a.date_time < s.end_time

Holders(s) == {a \in appointments : a.status # "canceled" /\ Holds(a, s)}

(* C1: no double-booking: in every reachable state, every slot is held by  *)
(* at most one appointment that is not canceled, also when the bookings    *)
(* run concurrently.  Stated as the claim states it; the handlers read no  *)
(* slot and no other appointment, so two bookings of one window both       *)
(* insert.                                                                 *)
C1_NoDoubleBooking ==
    \A s \in slots : Cardinality(Holders(s)) <= 1

(* C2: appointment lifecycle: in every step the status of a stored         *)
(* appointment stays as it is or goes from scheduled to completed or to    *)
(* canceled; completed and canceled are never left.  Stated as the claim   *)
(* states it; PUT/PATCH writes any status over any other.                  *)
C2_LifecycleOnly ==
    [][\A a \in appointments : \A b \in appointments' :
            b.appointment_id = a.appointment_id =>
                \/ b.status = a.status
                \/ a.status = "scheduled" /\ b.status \in {"completed", "canceled"}]_vars

ItemsOf(r) == {i \in items : i.prescription = r.prescription_id}

(* C3: prescription issuance is all-or-nothing: in every reachable state   *)
(* every stored prescription has a non-empty item list.  Stated as the     *)
(* claim states it; an empty list passes validation, and a non-empty valid *)
(* list raises after the prescription row is written.                      *)
C3_PrescriptionHasItems ==
    \A r \in prescriptions : ItemsOf(r) # {}

(* C4: issued prescriptions are immutable: no step changes the patient,    *)
(* doctor, notes or item lines of a prescription that stays stored.        *)
(* Stated as the claim states it; the route offers PUT/PATCH.              *)
C4_PrescriptionImmutable ==
    [][\A r \in prescriptions : \A q \in prescriptions' :
            q.prescription_id = r.prescription_id =>
                q = r /\ {i \in items' : i.prescription = r.prescription_id} = ItemsOf(r)]_vars

UserOfPatient(pid) ==
    LET ps == {p \in patients : p.patient_id = pid}
    IN  IF ps = {} THEN NULL ELSE (CHOOSE p \in ps : TRUE).user

UserOfDoctor(did) ==
    LET ds == {d \in doctors : d.doctor_id = did}
    IN  IF ds = {} THEN NULL ELSE (CHOOSE d \in ds : TRUE).user

(* C5: role-based authorization on appointments: a step that books an      *)
(* appointment for a caller of the patient role, or by which such a caller *)
(* cancels one, concerns an appointment whose patient is the caller; a     *)
(* step by which a caller of the doctor role completes an appointment      *)
(* concerns one whose doctor is the caller.  Stated as the claim states    *)
(* it; the handlers check IsAuthenticated and nothing else.                *)
C5_RoleAuthorization ==
    [][/\ \A w \in Workers :
            (AppointmentSave(w) /\ appointments' # appointments
                /\ req[w].caller.role = "patient")
            => UserOfPatient(req[w].data.patient) = req[w].caller.user_id
       /\ \A c \in users : \A a \in appointments : \A data \in AppointmentData :
            (AppointmentUpdate(c, a, data) /\ data.status # a.status) =>
                /\ (c.role = "patient" /\ data.status = "canceled")
                        => UserOfPatient(a.patient) = c.user_id
                /\ (c.role = "doctor" /\ data.status = "completed")
                        => UserOfDoctor(a.doctor) = c.user_id]_vars

(* C6: a user's role is immutable after creation: no step changes the role *)
(* of a user that stays stored.  Stated as the claim states it;            *)
(* UserSerializer.update writes the role of the request.                   *)
C6_RoleImmutable ==
    [][\A u \in users : \A v \in users' :
            v.user_id = u.user_id => v.role = u.role]_vars

(* C7: slot time validity: in every reachable state every stored slot ends *)
(* strictly after it starts.  Stated as the claim states it; nothing       *)
(* compares the two times.                                                 *)
C7_SlotEndsAfterStart ==
    \A s \in slots : s.end_time > s.start_time

SameWindow(s, t) ==
    /\ s.doctor = t.doctor
    /\ s.start_time = t.start_time
    /\ s.end_time = t.end_time

(* C8: slot uniqueness: in every reachable state no two stored slots have  *)
(* the same (doctor, start_time, end_time); and a creation of a slot whose  *)
(* tuple is already stored fails and leaves the slots as they are: refused *)
(* by the uniqueness validator in is_valid(), or by the database's         *)
(* integrity error in save(), whichever worker's save comes second.        *)
C8_SlotsUnique ==
    /\ [](\A s \in slots : \A t \in slots : SameWindow(s, t) => s = t)
    /\ [][\A w \in Workers :
            /\ (/\ req[w].pc = "slot_save"
                /\ req'[w].pc = "idle"
                /\ \E s \in slots : SameWindow(s, req[w].data))
               => (slots' = slots /\ req'[w].resp = "IntegrityError")
            /\ (req[w].pc = "idle" /\ req'[w].pc = "idle" /\ req'[w] # req[w])
               => \A data \in WindowSlotData :
                    ((\E s \in slots : SameWindow(s, data)) /\ SlotBegin(w, data))
                    => (slots' = slots /\ req'[w].resp = "unique")]_vars

(* C8 witness: with the one doctor ever created still stored, a slot is    *)
(* stored and a worker's save was refused: it lost to the same window.     *)
C8_Witness ==
    /\ nextId["doctors"] = 2
    /\ doctors # {}
    /\ slots # {}
    /\ \E w \in Workers : req[w].pc = "idle" /\ req[w].resp = "IntegrityError"

(* C9: cascade deletion keeps references valid: in every reachable state   *)
(* every stored appointment references a stored patient and a stored       *)
(* doctor, and every stored slot references a stored doctor.               *)
C9_ReferencesValid ==
    /\ \A a \in appointments : a.patient \in PatientIds /\ a.doctor \in DoctorIds
    /\ \A s \in slots : s.doctor \in DoctorIds

(* C9 witness: appointments and slots had been stored, the doctor they     *)
(* referenced is deleted, and none of them is left while the patient is.   *)
C9_Witness ==
    /\ nextId["appointments"] > 1
    /\ nextId["slots"] > 1
    /\ nextId["doctors"] > 1
    /\ doctors = {}
    /\ patients # {}
    /\ appointments = {}
    /\ slots = {}

(* C10: the audit log is append-only and survives user deletion: every     *)
(* step keeps every stored row with its action, timestamp and ip address;  *)
(* its user reference stays as it is while that user is stored and is null *)
(* once the user is deleted.                                               *)
C10_AuditAppendOnly ==
    [][\A l \in auditlogs : \E m \in auditlogs' :
            /\ m.log_id = l.log_id
            /\ m.action = l.action
            /\ m.timestamp = l.timestamp
            /\ m.ip_address = l.ip_address
            /\ m.user = IF l.user \in IdsOf(users', "user_id") THEN l.user ELSE NULL]_vars

(* C10 witness: every user ever created is deleted and a row of the log,   *)
(* its user reference null, is still stored.                               *)
C10_Witness ==
    /\ nextId["users"] > 1
    /\ users = {}
    /\ \E l \in auditlogs : l.user = NULL

====
